---- MODULE Spec2Model ----
(***************************************************************************)
(* State-machine model of lint/linter.py (class Linter): the registry of   *)
(* checker definitions (persist.languages), the per-view registry of live  *)
(* linter instances (persist.linters), assign / remove / reload, and one   *)
(* lint pass (lint_view -> pre_lint -> lint -> find_errors -> split_match  *)
(* -> error).                                                              *)
(*                                                                         *)
(* Strings that the code takes apart (the view's syntax setting) are       *)
(* sequences of lexemes; optional values (None) are the empty set and a    *)
(* present value v is {v}; dicts are functions.                            *)
(***************************************************************************)
EXTENDS Integers, Sequences, FiniteSets, TLC

VARIABLES
    linters,        \* persist.linters: view id -> set of instance ids
    fill,           \* per set of persist.linters: slots of its hash table in use
                    \* (members and the dummies that removed members leave)
    inst,           \* heap of Linter instances ever constructed: id -> fields
    nextId,         \* identity of the next instance to be constructed
    defaults,       \* cls.defaults of every registered class
    lint_settings,  \* cls.lint_settings of every registered class
    plugins,        \* persist.settings['plugins']
    last,           \* the host call that finished last, with what it returned
    lastSyn,        \* per view: the syntax setting of its latest assign since its latest remove
    host,           \* frame of the host call in progress (reload's loops)
    lv,             \* frame of lint_view
    pl,             \* frame of pre_lint
    ln,             \* frame of lint and of its find_errors generator
    raised,         \* the exception that left lint_view, if any
    delivered,      \* calls made to lint_view's callback
    log             \* runs of pre_lint made by the current lint_view, and the
                    \* rendezvous events of pre_lint

vars == <<linters, fill, inst, nextId, defaults, lint_settings, plugins, last, lastSyn,
          host, lv, pl, ln, raised, delivered, log>>

registryVars == <<linters, fill, inst, nextId, lint_settings, last, lastSyn, host>>
passVars == <<lv, pl, ln, raised, delivered, log>>

-----------------------------------------------------------------------------
(* Bounds of the model *)

\* instances that may ever be constructed in one behaviour
MaxInst == 7
\* times one reload may meet an instance it has itself just added to the set
MaxRevisit == 1

-----------------------------------------------------------------------------
(* Values *)

None == {}
Some(v) == {v}
Val(o) == CHOOSE v \in o : TRUE

EmptyMap == [k \in {} |-> <<>>]

\* dict.update: the entries of b override those of a
Update(a, b) ==
    [k \in DOMAIN a \cup DOMAIN b |-> IF k \in DOMAIN b THEN b[k] ELSE a[k]]

Views == {1, 2}

\* view.file_name()
FileName(v) == IF v = 1 THEN "a.py" ELSE "b.html"

\* str.lower(), lexeme by lexeme
LowerLexeme(x) ==
    CASE x = "Python" -> "python"
      [] x = "HTML" -> "html"
      [] x = "CSS" -> "css"
      [] x = "Plain" -> "plain"
      [] x = "Packages" -> "packages"
      [] x = ".tmLanguage" -> ".tmlanguage"
      [] OTHER -> x

Lower(s) == [i \in 1..Len(s) |-> LowerLexeme(s[i])]

\* values of the view setting 'syntax'
SyntaxSettings ==
    { <<>>,
      <<"Packages", "/", "Python", "/", "Python", ".tmLanguage">>,
      <<"python">>,
      <<"Packages", "/", "HTML", "/", "HTML", ".tmLanguage">>,
      <<"Packages", "/", "Text", "/", "Plain", " ", "text", ".tmLanguage">> }

\* syntax_re = re.compile(r'/([^/]+)\.tmLanguage$'), syntax_re.search(syn):
\* the group, or None when the pattern is found nowhere
SyntaxReSearch(syn) ==
    LET n == Len(syn)
        slashes == {i \in 1..n : syn[i] = "/"}
    IN  IF n >= 3 /\ syn[n] = ".tmLanguage" /\ slashes # {}
        THEN LET s == CHOOSE i \in slashes : \A j \in slashes : j <= i
             IN  IF s + 1 <= n - 1 THEN Some(SubSeq(syn, s + 1, n - 1)) ELSE None
        ELSE None

\* lines 77-82: the group of the match, else the setting itself
SyntaxToken(syn) ==
    LET match == SyntaxReSearch(syn)
    IN  IF match # None THEN Val(match) ELSE syn

-----------------------------------------------------------------------------
(* persist.languages: the registered Linter subclasses and their class     *)
(* attributes.  language is "" (none declared), a string (one sequence of  *)
(* lexemes in a singleton) or a tuple of strings; regex_ok tells whether   *)
(* re.compile accepts the class's regex; groups are the named groups of    *)
(* the regex.                                                              *)

Names == {"pyflakes", "pep8", "php", "jshint", "csslint", "base"}

Language(name) ==
    CASE name = "pyflakes" -> [kind |-> "str", v |-> {<<"python">>}]
      [] name = "pep8"     -> [kind |-> "tuple", v |-> {<<"python">>, <<"cython">>}]
      [] name = "php"      -> [kind |-> "str", v |-> {<<"html">>}]
      [] name = "jshint"   -> [kind |-> "tuple", v |-> {<<"html">>, <<"javascript">>}]
      [] name = "csslint"  -> [kind |-> "str", v |-> {<<"css">>}]
      [] OTHER             -> [kind |-> "empty", v |-> {}]

Cmd(name) == IF name = "base" THEN <<>> ELSE <<name>>

Regex(name) == IF name = "base" THEN "" ELSE "pattern"

RegexCompiles(name) == name # "csslint"

Groups(name) ==
    CASE name = "pyflakes" -> {"line", "col", "error", "near"}
      [] name = "pep8"     -> {"line", "col", "error"}
      [] name = "php"      -> {"line", "error"}
      [] name = "jshint"   -> {"error", "near"}
      [] OTHER             -> {"line", "error"}

Multiline(name) == name \in {"php", "jshint"}

TabSize(name) == IF name = "pep8" THEN 4 ELSE 1

Selector(name) == IF name = "php" THEN Some("source.php") ELSE None

NeedsApi(name) == name = "jshint"

ModuleOf(name) == IF name \in {"pyflakes", "pep8"} THEN "modpy" ELSE "modweb"

\* the defaults each class declares (None for a class that declares none)
DeclaredDefaults(name) ==
    CASE name = "pyflakes" -> Some([disable |-> FALSE, strict |-> TRUE])
      [] name = "php"      -> Some([strict |-> FALSE])
      [] OTHER             -> None

Modules == {"modpy", "modweb"}

\* values of persist.settings['plugins']
PluginSettings ==
    { EmptyMap,
      [pyflakes |-> [disable |-> TRUE]],
      [pep8 |-> [strict |-> TRUE], php |-> [disable |-> TRUE]] }

\* plugins.get(name, {})
PluginsGet(p, name) == IF name \in DOMAIN p THEN p[name] ELSE EmptyMap

\* cls.defaults or {}
DefaultsOrEmpty(d) == IF d = None \/ DOMAIN Val(d) = {} THEN EmptyMap ELSE Val(d)

-----------------------------------------------------------------------------
(* Linter.can_lint, lines 249-258.  The result is True, False or None (no  *)
(* language declared); callers test its truth.                             *)

CanLintNoLower(name, syntax) ==
    LET language == syntax
        cls == Language(name)
    IN  IF cls.kind # "empty"
        THEN IF cls.kind = "str" /\ language \in cls.v THEN "True"
             ELSE IF cls.kind = "tuple" /\ language \in cls.v THEN "True"
             ELSE "False"
        ELSE "None"

CanLint(name, syntax) ==
    LET language == Lower(syntax)
        cls == Language(name)
    IN  IF cls.kind # "empty"
        THEN IF cls.kind = "str" /\ language \in cls.v THEN "True"
             ELSE IF cls.kind = "tuple" /\ language \in cls.v THEN "True"
             ELSE "False"
        ELSE "None"

Truthy(r) == r = "True"

-----------------------------------------------------------------------------
(* Linter instances *)

\* Linter.__init__, lines 33-47: the instance keeps the class's regex string
\* when re.compile raises; errors is the class attribute None until pre_lint
\* binds a dict; the highlight is new and empty
NewInstance(name, view, syntax, filename) ==
    [ name      |-> name,
      view      |-> view,
      syntax    |-> syntax,
      filename  |-> filename,
      regex     |-> IF Regex(name) # "" /\ RegexCompiles(name) THEN "compiled" ELSE "str",
      errors    |-> None,
      marks     |-> {},
      cleared   |-> 0,
      drawn     |-> 0 ]

\* Linter.clear, lines 244-245, on every instance of ids
Cleared(I, ids) ==
    [i \in DOMAIN I |-> IF i \in ids THEN [I[i] EXCEPT !.cleared = @ + 1] ELSE I[i]]

\* the instances something still refers to: the registry's, those of the
\* tuple and of the selector list lint_view took, and the one reload is
\* replacing.  The others are garbage, and the heap drops them when the next
\* host call begins.
Live ==
    UNION {linters[v] : v \in DOMAIN linters} \cup lv.linters \cup lv.selectors
        \cup host.removed

Heap == [i \in DOMAIN inst \cap Live |-> inst[i]]

\* the order in which persist.languages.items() yields the classes
NameOrder == <<"pyflakes", "pep8", "php", "jshint", "csslint", "base">>

\* lines 89-93 without the can_lint test: an instance of every class
EveryName(syntax) == NameOrder

\* lines 89-93: the classes that get an instance, in the order they get it
MatchingNames(syntax) ==
    LET Test(name) == Truthy(CanLint(name, syntax))
    IN  SelectSeq(NameOrder, Test)

\* lines 101-107 with the clear loop left out
RemoveEntryUncleared(L, I, vid) ==
    IF vid \in DOMAIN L
    THEN [linters |-> [v \in DOMAIN L \ {vid} |-> L[v]], inst |-> I]
    ELSE [linters |-> L, inst |-> I]

\* lines 101-107 with the del of line 107 left out
RemoveEntryKept(L, I, vid) ==
    IF vid \in DOMAIN L
    THEN [linters |-> L, inst |-> Cleared(I, L[vid])]
    ELSE [linters |-> L, inst |-> I]

\* Linter.remove, lines 101-107: the registry and the heap after remove(vid)
RemoveEntry(L, I, vid) ==
    IF vid \in DOMAIN L
    THEN [linters |-> [v \in DOMAIN L \ {vid} |-> L[v]], inst |-> Cleared(I, L[vid])]
    ELSE [linters |-> L, inst |-> I]

\* last: op, its arguments, the return statement reached (path), the value
\* returned (ret), and for assign whether the view's latest assign since its
\* latest remove had the same syntax setting (again), the view's entry before
\* the call (pre), the instances the call constructed (made), and for assign
\* whether the call before it was a remove that found the view registered
\* (detached)
NoCall ==
    [op |-> "none", vid |-> 0, syn |-> <<>>, mod |-> None, path |-> "", ret |-> None,
     again |-> FALSE, pre |-> None, made |-> {}, detached |-> FALSE]

Entry(L, vid) == IF vid \in DOMAIN L THEN Some(L[vid]) ELSE None

HostIdle ==
    [pc |-> "idle", mod |-> None, todo |-> {}, cur |-> None, ahead |-> {},
     removed |-> None, budget |-> 0, pre |-> EmptyMap, preInst |-> EmptyMap]

-----------------------------------------------------------------------------
(* Linter.assign, lines 60-99, for a live view (view.id() returns).  path   *)
(* names the return statement reached: "empty" (line 75), "same" (line 87),*)
(* "built" (line 97), "nomatch" (line 99).                                 *)

\* line 95 with the test left out: any set is stored
StoresAnySet(k) == TRUE

\* line 95, `if linters:`: a set of k instances is stored when it is not empty
StoresSet(k) == k > 0

Assign(view, syn) ==
    /\ host.pc = "idle"
    /\ lv.pc \in {"idle", "done", "raised"}
    /\ LET vid == view
           syntax == SyntaxToken(syn)
           names == MatchingNames(syntax)
           k == Len(names)
           removed == RemoveEntry(linters, Heap, vid)
           Return(path, ret) ==
               last' = [op |-> "assign", vid |-> vid, syn |-> syn, mod |-> None,
                        path |-> path, ret |-> ret,
                        again |-> lastSyn[vid] = Some(syn),
                        pre |-> Entry(linters, vid),
                        made |-> DOMAIN inst' \ DOMAIN inst,
                        detached |-> last.op = "remove" /\ last.path = "present"
                                                       /\ last.vid = vid]
       IN  IF syn = <<>>
           THEN /\ linters' = removed.linters
                /\ fill' = [v \in DOMAIN removed.linters |-> fill[v]]
                /\ inst' = removed.inst
                /\ nextId' = nextId
                /\ lastSyn' = [lastSyn EXCEPT ![vid] = None]
                /\ Return("empty", None)
           ELSE \/ /\ syntax # <<>>
                   /\ vid \in DOMAIN linters
                   /\ linters[vid] # {}
                   /\ \E first \in linters[vid] : inst[first].syntax = syntax
                   /\ inst' = Heap
                   /\ UNCHANGED <<linters, fill, nextId>>
                   /\ lastSyn' = [lastSyn EXCEPT ![vid] = Some(syn)]
                   /\ Return("same", None)
                \/ /\ syntax # <<>>
                   /\ ~ ( /\ vid \in DOMAIN linters
                          /\ linters[vid] # {}
                          /\ \A first \in linters[vid] : inst[first].syntax = syntax )
                   /\ StoresSet(k)
                   /\ nextId + k - 1 <= MaxInst
                   /\ inst' = [i \in DOMAIN Heap \cup (nextId .. nextId + k - 1) |->
                                 IF i \in DOMAIN Heap THEN inst[i]
                                 ELSE NewInstance(names[i - nextId + 1], view, syntax,
                                                  FileName(view))]
                   /\ linters' = [v \in DOMAIN linters \cup {vid} |->
                                    IF v = vid THEN nextId .. nextId + k - 1 ELSE linters[v]]
                   /\ fill' = [v \in DOMAIN linters \cup {vid} |->
                                 IF v = vid THEN k ELSE fill[v]]
                   /\ nextId' = nextId + k
                   /\ lastSyn' = [lastSyn EXCEPT ![vid] = Some(syn)]
                   /\ Return("built", Some(nextId .. nextId + k - 1))
                \/ /\ \/ syntax = <<>>
                      \/ /\ ~ ( /\ vid \in DOMAIN linters
                                /\ linters[vid] # {}
                                /\ \A first \in linters[vid] : inst[first].syntax = syntax )
                         /\ ~ StoresSet(k)
                   /\ linters' = removed.linters
                   /\ fill' = [v \in DOMAIN removed.linters |-> fill[v]]
                   /\ inst' = removed.inst
                   /\ nextId' = nextId
                   /\ lastSyn' = [lastSyn EXCEPT ![vid] = None]
                   /\ Return("nomatch", None)
    /\ UNCHANGED <<defaults, lint_settings, plugins, host, passVars>>

(* Linter.remove, lines 101-107 *)
Remove(vid) ==
    /\ host.pc = "idle"
    /\ lv.pc \in {"idle", "done", "raised"}
    /\ LET removed == RemoveEntry(linters, Heap, vid)
       IN  /\ linters' = removed.linters
           /\ fill' = [v \in DOMAIN removed.linters |-> fill[v]]
           /\ inst' = removed.inst
           /\ last' = [op |-> "remove", vid |-> vid, syn |-> <<>>, mod |-> None,
                       path |-> IF vid \in DOMAIN linters THEN "present" ELSE "absent",
                       ret |-> None, again |-> FALSE, pre |-> Entry(linters, vid),
                       made |-> {}, detached |-> FALSE]
    /\ lastSyn' = [lastSyn EXCEPT ![vid] = None]
    /\ UNCHANGED <<nextId, defaults, lint_settings, plugins, host, passVars>>

(* the settings store changes: persist.settings['plugins'] has a new value *)
SettingsChanged(p) ==
    /\ host.pc = "idle"
    /\ lv.pc = "idle"
    /\ p # plugins
    /\ plugins' = p
    /\ UNCHANGED <<registryVars, defaults, passVars>>

-----------------------------------------------------------------------------
(* Linter.reload, lines 109-132.  The inner loop iterates the very set it  *)
(* removes from and adds to (lines 122-129).  The set keeps its size, so   *)
(* the iterator never raises; which elements it still yields after an add  *)
(* depends on where the hash table puts the new instance and on whether    *)
(* the add rebuilds the table: the new instance may be yielded later in    *)
(* the same loop, and an instance not yet yielded may never be.  ahead is  *)
(* the set of instances the iterator will still yield.                     *)

\* lines 114-119 with the plugin settings for the class left out
SettingsFromDefaultsOnly(D, P) ==
    [name \in Names |-> DefaultsOrEmpty(D[name])]

\* lines 114-119: every class's lint_settings
ReloadedSettings(D, P) ==
    [name \in Names |-> Update(DefaultsOrEmpty(D[name]), PluginsGet(P, name))]

\* line 123: the instance is left alone
FilteredOut(mod, i) == mod # None /\ ModuleOf(inst[i].name) # Val(mod)

ReloadBegin(mod) ==
    /\ host.pc = "idle"
    /\ lv.pc \in {"idle", "done", "raised"}
    /\ LET total == Cardinality(UNION {linters[v] : v \in DOMAIN linters})
       IN  nextId - 1 + total + MaxRevisit <= MaxInst
    /\ lint_settings' = ReloadedSettings(defaults, plugins)
    /\ host' = [pc |-> "reload", mod |-> mod, todo |-> DOMAIN linters, cur |-> None,
                ahead |-> {}, removed |-> None, budget |-> MaxRevisit,
                pre |-> linters, preInst |-> Heap]
    /\ inst' = Heap
    /\ last' = [op |-> "reload", vid |-> 0, syn |-> <<>>, mod |-> mod, path |-> "",
                ret |-> None, again |-> FALSE, pre |-> None, made |-> {},
                detached |-> FALSE]
    /\ UNCHANGED <<linters, fill, nextId, defaults, plugins, lastSyn, passVars>>

\* line 121: the next (id, linters) item; line 122: a new iterator of the set
ReloadNextView ==
    /\ host.pc = "reload"
    /\ host.cur = None
    /\ \E id \in host.todo :
          host' = [host EXCEPT !.cur = Some(id), !.todo = @ \ {id},
                               !.ahead = linters[id]]
    /\ UNCHANGED <<linters, fill, inst, nextId, defaults, lint_settings, plugins, last,
                   lastSyn, passVars>>

\* lines 122-127: the iterator yields linter; it is skipped, or cleared and
\* removed from the set
ReloadVisit ==
    /\ host.pc = "reload"
    /\ host.cur # None
    /\ host.removed = None
    /\ \E linter \in host.ahead :
          IF FilteredOut(host.mod, linter)
          THEN /\ host' = [host EXCEPT !.ahead = @ \ {linter}]
               /\ UNCHANGED <<linters, inst>>
          ELSE /\ inst' = Cleared(inst, {linter})
               /\ linters' = [linters EXCEPT ![Val(host.cur)] = @ \ {linter}]
               /\ host' = [host EXCEPT !.ahead = @ \ {linter}, !.removed = Some(linter)]
    /\ UNCHANGED <<fill, nextId, defaults, lint_settings, plugins, last, lastSyn, passVars>>

\* set.add of line 129 rebuilds the hash table (8 slots for a small set) when
\* the slots in use reach two thirds of it; the rebuilt table has no dummies
\* and puts every member at a new place
Rebuilds(f) == f * 3 >= 8 * 2

\* lines 128-130: the replacement is constructed, added to the set and drawn
ReloadReplace ==
    /\ host.pc = "reload"
    /\ host.removed # None
    /\ LET old == inst[Val(host.removed)]
           new == NewInstance(old.name, old.view, old.syntax, old.filename)
       IN  inst' = [i \in DOMAIN inst \cup {nextId} |->
                      IF i = nextId THEN [new EXCEPT !.drawn = 1] ELSE inst[i]]
    /\ linters' = [linters EXCEPT ![Val(host.cur)] = @ \cup {nextId}]
    /\ nextId' = nextId + 1
    /\ \E slots \in {fill[Val(host.cur)], fill[Val(host.cur)] + 1},
          keep \in SUBSET host.ahead, again \in BOOLEAN :
          \* the new member takes a dummy's slot or a free one
          /\ slots <= 8
          /\ fill' = [fill EXCEPT ![Val(host.cur)] =
                         IF Rebuilds(slots) THEN Cardinality(linters'[Val(host.cur)])
                         ELSE slots]
          \* the members not yet yielded stay ahead of the iterator unless the
          \* table is rebuilt; the new member lies ahead of it or behind it
          /\ keep # host.ahead => Rebuilds(slots)
          /\ again => host.budget > 0
          /\ host' = [host EXCEPT !.removed = None,
                                  !.ahead = keep \cup (IF again THEN {nextId} ELSE {}),
                                  !.budget = IF again THEN @ - 1 ELSE @]
    /\ UNCHANGED <<defaults, lint_settings, plugins, last, lastSyn, passVars>>

\* the iterator of line 122 is exhausted
ReloadEndView ==
    /\ host.pc = "reload"
    /\ host.cur # None
    /\ host.removed = None
    /\ host.ahead = {}
    /\ host' = [host EXCEPT !.cur = None]
    /\ UNCHANGED <<linters, fill, inst, nextId, defaults, lint_settings, plugins, last,
                   lastSyn, passVars>>

\* line 132
ReloadReturn ==
    /\ host.pc = "reload"
    /\ host.cur = None
    /\ host.todo = {}
    /\ host' = [host EXCEPT !.pc = "returned"]
    /\ UNCHANGED <<linters, fill, inst, nextId, defaults, lint_settings, plugins, last,
                   lastSyn, passVars>>

\* the caller of reload goes on
HostContinue ==
    /\ host.pc = "returned"
    /\ host' = HostIdle
    /\ UNCHANGED <<linters, fill, inst, nextId, defaults, lint_settings, plugins, last,
                   lastSyn, passVars>>

-----------------------------------------------------------------------------
(* Inputs of a lint pass *)

\* the text of a view, character by character
Codes ==
    { <<>>,
      <<"\t", "f", "o", "o", " ", "=", " ", "1">>,
      <<"<", "?", "a", "?", ">", "<", "?", "b", "?", ">">> }

\* python's code[left:right] for 0 <= left
Slice(code, left, right) ==
    SubSeq(code, left + 1, IF right < Len(code) THEN right ELSE Len(code))

\* sections: selector -> list of (line_offset, left, right)
SectionChoices ==
    { EmptyMap,
      [s \in {"source.php"} |-> << <<10, 0, 5>> >>],
      [s \in {"source.php"} |-> << <<0, 0, 5>>, <<0, 5, 10>> >>],
      [s \in {"source.js"} |-> << <<1, 0, 5>> >>] }

\* One line of a checker's output, as the class's regex sees it: whether the
\* regex matches there, and for each named group the text it captures (None
\* for a group that takes no part in the match).  Numbers are digit strings.
NoMatchLine ==
    [matches |-> FALSE, line |-> None, col |-> None, near |-> None, error |-> None]

MatchLine(line, col, near, error) ==
    [matches |-> TRUE, line |-> line, col |-> col, near |-> near, error |-> error]

\* what util.communicate may return: a sequence of output lines; <<>> is ''
Outputs ==
    { <<>>,
      <<NoMatchLine>>,
      << MatchLine(Some(<<3>>), Some(<<5>>), None, Some("bad indent")),
         NoMatchLine,
         MatchLine(Some(<<7>>), Some(<<1>>), None, Some("unused var")) >>,
      << MatchLine(Some(<<3>>), None, Some("foo"), Some("undefined foo")),
         MatchLine(Some(<<3>>), None, None, Some("syntax error")) >>,
      << MatchLine(Some(<<3>>), None, None, Some("syntax error")) >>,
      << MatchLine(None, None, None, Some("no line")) >>,
      << MatchLine(Some(<<1>>), Some(<<6>>), None, Some("E225")) >> }

\* int(s) for a string of decimal digits
RECURSIVE ToInt(_)
ToInt(digits) ==
    IF digits = <<>> THEN 0
    ELSE 10 * ToInt(SubSeq(digits, 1, Len(digits) - 1)) + digits[Len(digits)]

\* match.groupdict(): every named group of the class's regex
GroupDict(name, m) == [g \in Groups(name) |-> m[g]]

-----------------------------------------------------------------------------
(* The frames of a lint pass that is not running *)

LvIdle ==
    [pc |-> "idle", view_id |-> 0, filename |-> "", code |-> <<>>, sections |-> EmptyMap,
     linters |-> {}, todo |-> {}, selectors |-> {}, cur |-> None, secs |-> <<>>,
     first |-> FALSE, off |-> 0, errors |-> EmptyMap]

PlIdle == [pc |-> "idle", self |-> 0, code |-> <<>>, keep |-> FALSE, q |-> <<>>,
           unfinished |-> 0, ret |-> ""]

LnIdle == [pc |-> "idle", self |-> 0, code |-> <<>>, output |-> <<>>, k |-> 0, by |-> "",
           results |-> <<>>]

\* an entry of the log
Event(e, self, by) ==
    [e |-> e, self |-> self, by |-> by, code |-> <<>>, kind |-> "", off |-> 0,
     found |-> EmptyMap]

-----------------------------------------------------------------------------
(* The registry: the calls the host makes one at a time *)

Init ==
    /\ linters = EmptyMap
    /\ fill = EmptyMap
    /\ inst = EmptyMap
    /\ nextId = 1
    /\ defaults = [name \in Names |-> DeclaredDefaults(name)]
    /\ lint_settings = [name \in Names |-> None]
    /\ plugins = EmptyMap
    /\ last = NoCall
    /\ lastSyn = [v \in Views |-> None]
    /\ host = HostIdle
    /\ lv = LvIdle
    /\ pl = PlIdle
    /\ ln = LnIdle
    /\ raised = None
    /\ delivered = <<>>
    /\ log = <<>>

Next ==
    \/ \E view \in Views, syn \in SyntaxSettings : Assign(view, syn)
    \/ \E vid \in Views : Remove(vid)
    \/ \E mod \in {None} \cup {Some(m) : m \in Modules} : ReloadBegin(mod)
    \/ ReloadNextView
    \/ ReloadVisit
    \/ ReloadReplace
    \/ ReloadEndView
    \/ ReloadReturn
    \/ HostContinue

Spec == Init /\ [][Next]_vars

-----------------------------------------------------------------------------
(* Linter.get_settings, lines 49-54: `settings` is the class's own defaults *)
(* dict whenever that dict is non-empty, and update() writes into it.      *)

SettingsOf(D, P, name) == Update(DefaultsOrEmpty(D[name]), PluginsGet(P, name))

DefaultsAfterGet(D, P, name) ==
    [D EXCEPT ![name] = IF D[name] = None \/ DOMAIN Val(D[name]) = {}
                        THEN @ ELSE Some(SettingsOf(D, P, name))]

\* line 147: linter.settings.get('disable') is true
Disabled(settings) == "disable" \in DOMAIN settings /\ settings["disable"] = TRUE

-----------------------------------------------------------------------------
(* Linter.find_errors, split_match, match_error and error *)

\* regex.finditer(output): the matches, in order
Finditer(output) ==
    LET IsMatch(l) == l.matches
    IN  SelectSeq(output, IsMatch)

\* line 272, `if errors:` : errors is the iterator finditer returned, an
\* object without __bool__ or __len__, so it is true whatever it will yield
IteratorIsTrue(matches) == TRUE

\* lines 269-279: the arguments find_errors hands to split_match, in order
\* (a match, or None).  In per-line mode each line is stripped and matched
\* at its start (match_error, lines 295-298).
Yields(name, output) ==
    IF Multiline(name)
    THEN LET errors == Finditer(output)
         IN  IF IteratorIsTrue(errors)
             THEN [i \in 1..Len(errors) |-> Some(errors[i])]
             ELSE <<None>>
    ELSE [i \in 1..Len(output) |-> IF output[i].matches THEN Some(output[i]) ELSE None]

NoResult ==
    [raise |-> "", match |-> FALSE, row |-> None, col |-> None, error |-> Some(""),
     near |-> None]

\* split_match, lines 281-293.  items starts with the keys row, col, error and
\* near and is read at the keys error, line, col and near: a regex without a
\* group named line raises KeyError; int(None) raises TypeError.  A col that
\* is None or '' stays as it is, and is false in lint either way.
SplitMatch(name, m) ==
    IF m # None
    THEN LET items == Update([row |-> None, col |-> None, error |-> Some(""), near |-> None],
                             GroupDict(name, Val(m)))
         IN  IF "line" \notin DOMAIN items THEN [NoResult EXCEPT !.raise = "KeyError"]
             ELSE IF items["line"] = None THEN [NoResult EXCEPT !.raise = "TypeError"]
             ELSE [raise |-> "",
                   match |-> TRUE,
                   row   |-> Some(ToInt(Val(items["line"])) - 1),
                   col   |-> IF items["col"] # None /\ Val(items["col"]) # <<>>
                             THEN Some(ToInt(Val(items["col"])) - 1) ELSE None,
                   error |-> items["error"],
                   near  |-> items["near"]]
    ELSE NoResult

\* str(error)
Str(error) == IF error = None THEN "None" ELSE Val(error)

Mark(kind, row, col, near) == [kind |-> kind, row |-> row, col |-> col, near |-> near]

\* Linter.error, lines 260-267, on the instance record x
Error(x, line, error) ==
    LET errors == Val(x.errors)
    IN  [x EXCEPT !.marks = @ \cup {Mark("line", line, None, None)},
                  !.errors = Some(
                      IF line \in DOMAIN errors
                      THEN [errors EXCEPT ![line] = Append(@, Str(error))]
                      ELSE [l \in DOMAIN errors \cup {line} |->
                              IF l = line THEN <<Str(error)>> ELSE errors[l]])]

\* lines 221-225: with tab_size > 1 the loop header calls xrange, a name this
\* module (python 3: it declares its metaclass with `metaclass=`) never binds
NeedsXrange(name, r) == r.match /\ r.row # None /\ r.col # None /\ TabSize(name) > 1

\* highlight.full_line(row), line 222: the bounds in the text of its line
\* number row (counted from 0), the newline left out
FullLine(code, row) ==
    LET breaks == {i \in 1..Len(code) : code[i] = "\n"}
        Nth(n) == CHOOSE i \in breaks : Cardinality({j \in breaks : j < i}) = n - 1
        start == IF row <= 0 THEN 0 ELSE IF row <= Cardinality(breaks) THEN Nth(row)
                 ELSE Len(code)
        end == IF row < 0 THEN 0 ELSE IF row < Cardinality(breaks) THEN Nth(row + 1) - 1
               ELSE Len(code)
    IN  <<start, end>>

\* lines 224-231 with range in the place of xrange: the first index i of the
\* line with col - diff <= i, diff having grown by tab_size - 1 at every tab
\* up to i; col itself when the line has no such index
RECURSIVE ScanFrom(_, _, _, _, _)
ScanFrom(code_line, col, tab_size, i, diff) ==
    IF i >= Len(code_line) THEN col
    ELSE LET d == IF code_line[i + 1] = "\t" THEN diff + (tab_size - 1) ELSE diff
         IN  IF col - d <= i THEN i ELSE ScanFrom(code_line, col, tab_size, i + 1, d)

ScannedColumn(code_line, col, tab_size) == ScanFrom(code_line, col, tab_size, 0, 0)

\* lines 217-239 for one result r that raises nothing, on the instance record
\* x linting code.  split_match gives every match a row, so error is called
\* with a number.
Placed(x, r, code) ==
    IF r.match
    THEN LET row == Val(r.row)
             bounds == FullLine(code, row)
             col == IF TabSize(x.name) > 1
                    THEN ScannedColumn(Slice(code, bounds[1], bounds[2]), Val(r.col),
                                       TabSize(x.name))
                    ELSE Val(r.col)
             marked ==
                 IF r.row # None
                 THEN IF r.col # None
                      THEN [x EXCEPT !.marks = @ \cup {Mark("range", row, Some(col), None)}]
                      ELSE IF r.near # None /\ Val(r.near) # ""
                      THEN [x EXCEPT !.marks = @ \cup {Mark("near", row, None, r.near)}]
                      ELSE [x EXCEPT !.marks = @ \cup {Mark("line", row, None, None)}]
                 ELSE x
         IN  Error(marked, row, r.error)
    ELSE x

-----------------------------------------------------------------------------
(* One lint pass: lint_view, lines 138-169, and what it calls.  The host   *)
(* makes no call while the pass runs.                                      *)

hostVars == <<linters, fill, nextId, lint_settings, plugins, last, lastSyn, host>>

\* an exception leaves lint, pre_lint and lint_view
Raise(exc, self, arg) ==
    /\ raised' = Some([exc |-> exc, self |-> self, arg |-> arg])
    /\ lv' = [lv EXCEPT !.pc = "raised"]
    /\ pl' = PlIdle
    /\ ln' = LnIdle

\* lines 139-145
LintViewStart(view_id, filename, code, sections) ==
    /\ lv.pc = "idle"
    /\ host.pc = "idle"
    /\ IF view_id \in DOMAIN linters
       THEN lv' = [LvIdle EXCEPT !.pc = "whole", !.view_id = view_id,
                                 !.filename = filename, !.code = code,
                                 !.sections = sections,
                                 !.linters = linters[view_id],
                                 !.todo = linters[view_id],
                                 !.selectors = {l \in linters[view_id] :
                                                  Selector(inst[l].name) # None}]
       ELSE lv' = [LvIdle EXCEPT !.pc = "done", !.view_id = view_id,
                                 !.filename = filename, !.code = code,
                                 !.sections = sections]
    /\ log' = <<>>
    /\ UNCHANGED <<hostVars, inst, defaults, pl, ln, raised, delivered>>

\* lines 146-152, one iteration
WholeNext ==
    /\ lv.pc = "whole"
    /\ pl.pc = "idle"
    /\ \E linter \in lv.todo :
          LET name == inst[linter].name
              settings == SettingsOf(defaults, plugins, name)
          IN  /\ defaults' = DefaultsAfterGet(defaults, plugins, name)
              /\ lv' = [lv EXCEPT !.todo = @ \ {linter}]
              /\ IF ~ Disabled(settings) /\ Selector(name) = None
                 THEN /\ inst' = [inst EXCEPT ![linter].filename = lv.filename]
                      /\ pl' = [PlIdle EXCEPT !.pc = "begin", !.self = linter,
                                              !.code = lv.code, !.ret = "whole"]
                 ELSE UNCHANGED <<inst, pl>>
    /\ UNCHANGED <<hostVars, ln, raised, delivered, log>>

\* the loop of line 146 ends
WholeDone ==
    /\ lv.pc = "whole"
    /\ pl.pc = "idle"
    /\ lv.todo = {}
    /\ lv' = [lv EXCEPT !.pc = "selectors"]
    /\ UNCHANGED <<hostVars, inst, defaults, pl, ln, raised, delivered, log>>

\* lines 154-157, one iteration: a new highlight and an empty errors dict
SelectorNext ==
    /\ lv.pc = "selectors"
    /\ \E linter \in lv.selectors :
          LET sel == Val(Selector(inst[linter].name))
          IN  IF sel \in DOMAIN lv.sections
              THEN lv' = [lv EXCEPT !.selectors = @ \ {linter}, !.cur = Some(linter),
                                    !.secs = lv.sections[sel], !.first = TRUE,
                                    !.errors = EmptyMap, !.pc = "sections"]
              ELSE lv' = [lv EXCEPT !.selectors = @ \ {linter}]
    /\ UNCHANGED <<hostVars, inst, defaults, pl, ln, raised, delivered, log>>

\* lines 159-161: the highlight is shifted and pre_lint gets the section's text
SectionRun ==
    /\ lv.pc = "sections"
    /\ pl.pc = "idle"
    /\ lv.secs # <<>>
    /\ LET line_offset == Head(lv.secs)[1]
           left == Head(lv.secs)[2]
           right == Head(lv.secs)[3]
       IN  /\ lv' = [lv EXCEPT !.off = line_offset, !.pc = "in_section"]
           /\ pl' = [PlIdle EXCEPT !.pc = "begin", !.self = Val(lv.cur),
                                   !.code = Slice(lv.code, left, right),
                                   !.keep = ~ lv.first, !.ret = "section"]
    /\ UNCHANGED <<hostVars, inst, defaults, ln, raised, delivered, log>>

\* lines 163-164: errors[line + line_offset] = error for every line found
Merged(errors, found, line_offset) ==
    [l \in DOMAIN errors \cup {line + line_offset : line \in DOMAIN found} |->
        IF l - line_offset \in DOMAIN found THEN found[l - line_offset] ELSE errors[l]]

SectionMerge ==
    /\ lv.pc = "merge"
    /\ LET found == Val(inst[Val(lv.cur)].errors)
       IN  /\ lv' = [lv EXCEPT !.errors = Merged(@, found, lv.off), !.secs = Tail(@),
                               !.first = FALSE, !.pc = "sections"]
           /\ log' = Append(log, [Event("section", Val(lv.cur), "worker") EXCEPT
                                    !.off = lv.off, !.found = found])
    /\ UNCHANGED <<hostVars, inst, defaults, pl, ln, raised, delivered>>

\* line 166
SectionsDone ==
    /\ lv.pc = "sections"
    /\ pl.pc = "idle"
    /\ lv.secs = <<>>
    /\ inst' = [inst EXCEPT ![Val(lv.cur)].errors = Some(lv.errors)]
    /\ lv' = [lv EXCEPT !.cur = None, !.pc = "selectors"]
    /\ UNCHANGED <<hostVars, defaults, pl, ln, raised, delivered, log>>

\* line 169 moved into the loop of line 154: callback after every selector
CallbackInLoop ==
    /\ lv.pc = "selectors"
    /\ lv.linters # {}
    /\ \E first \in lv.linters :
          delivered' = Append(delivered, [view |-> inst[first].view,
                                          linters |-> lv.linters])
    /\ lv' = [lv EXCEPT !.pc = IF lv.selectors = {} THEN "done" ELSE "selectors"]
    /\ UNCHANGED <<hostVars, inst, defaults, log, pl, ln, raised>>

\* line 169: callback(linters[0].view, linters)
Callback ==
    /\ lv.pc = "selectors"
    /\ lv.selectors = {}
    /\ IF lv.linters = {}
       THEN /\ Raise("IndexError", 0, None)
            /\ UNCHANGED delivered
       ELSE /\ \E first \in lv.linters :
                  delivered' = Append(delivered, [view |-> inst[first].view,
                                                  linters |-> lv.linters])
            /\ lv' = [lv EXCEPT !.pc = "done"]
            /\ UNCHANGED <<pl, ln, raised>>
    /\ UNCHANGED <<hostVars, inst, defaults, log>>

-----------------------------------------------------------------------------
(* Linter.pre_lint, lines 187-206 *)

\* pre_lint returns to lint_view: to the loop of line 146, or to line 163
ReturnFromPreLint ==
    /\ pl' = PlIdle
    /\ lv' = IF pl.ret = "section" THEN [lv EXCEPT !.pc = "merge"] ELSE lv

\* lines 188-196: a new errors dict; the highlight handed in, or a new one
PreLint ==
    /\ pl.pc = "begin"
    /\ inst' = [inst EXCEPT ![pl.self].errors = Some(EmptyMap),
                            ![pl.self].marks = IF pl.keep THEN @ ELSE {}]
    /\ log' = Append(log, [Event("run", pl.self, "worker") EXCEPT
                             !.code = pl.code, !.kind = pl.ret])
    /\ IF pl.code = <<>>
       THEN /\ ReturnFromPreLint
            /\ UNCHANGED ln
       ELSE IF NeedsApi(inst[pl.self].name)
       THEN /\ pl' = [pl EXCEPT !.pc = "put"]
            /\ UNCHANGED <<lv, ln>>
       ELSE /\ pl' = [pl EXCEPT !.pc = "lint"]
            /\ ln' = [LnIdle EXCEPT !.pc = "begin", !.self = pl.self, !.code = pl.code,
                                    !.by = "worker"]
            /\ UNCHANGED lv
    /\ UNCHANGED <<hostVars, defaults, raised, delivered>>

\* line 203 calls callback() where it stands: callback runs in the thread
\* that called pre_lint
CallbackThread == "worker"

\* line 202: q.put(1)
QueuePut ==
    /\ pl.pc = "put"
    /\ pl' = [pl EXCEPT !.q = Append(@, 1), !.unfinished = @ + 1, !.pc = "callback"]
    /\ log' = Append(log, Event("put", pl.self, "worker"))
    /\ UNCHANGED <<hostVars, inst, defaults, lv, ln, raised, delivered>>

\* lines 203, 198-199: callback takes the token and calls lint
CallbackGet ==
    /\ pl.pc = "callback"
    /\ pl.q # <<>>
    /\ pl' = [pl EXCEPT !.q = Tail(@), !.pc = "lint_api"]
    /\ ln' = [LnIdle EXCEPT !.pc = "begin", !.self = pl.self, !.code = pl.code,
                            !.by = CallbackThread]
    /\ log' = Append(log, Event("get", pl.self, CallbackThread))
    /\ UNCHANGED <<hostVars, inst, defaults, lv, raised, delivered>>

\* line 200: q.task_done()
TaskDone ==
    /\ pl.pc = "task_done"
    /\ pl' = [pl EXCEPT !.unfinished = @ - 1, !.pc = "join"]
    /\ log' = Append(log, Event("task_done", pl.self, CallbackThread))
    /\ UNCHANGED <<hostVars, inst, defaults, lv, ln, raised, delivered>>

\* line 204: q.join() returns once no task is unfinished
Join ==
    /\ pl.pc = "join"
    /\ pl.unfinished = 0
    /\ log' = Append(log, Event("join", pl.self, "worker"))
    /\ ReturnFromPreLint
    /\ UNCHANGED <<hostVars, inst, defaults, ln, raised, delivered>>

-----------------------------------------------------------------------------
(* Linter.lint, lines 208-239 *)

\* line 209: self.language and self.cmd and self.regex (a compiled pattern
\* is true, and so is a non-empty string that did not compile)
Implemented(name) ==
    Language(name).kind # "empty" /\ Cmd(name) # <<>> /\ Regex(name) # ""

\* lines 209-214: communicate returns the checker's output
LintBegin(output) ==
    /\ ln.pc = "begin"
    /\ IF ~ Implemented(inst[ln.self].name)
       THEN /\ Raise("NotImplementedError", ln.self, None)
            /\ UNCHANGED log
       ELSE /\ ln' = [ln EXCEPT !.output = output, !.k = 1,
                                !.pc = IF output = <<>> THEN "return" ELSE "iter"]
            /\ log' = Append(log, Event("lint", ln.self, ln.by))
            /\ UNCHANGED <<lv, pl, raised>>
    /\ UNCHANGED <<hostVars, inst, defaults, delivered>>

\* lines 216-239, one iteration: find_errors runs to its next yield and the
\* loop body places the result.  A regex that did not compile is a string,
\* which has neither finditer nor match.
LintNext ==
    /\ ln.pc = "iter"
    /\ LET name == inst[ln.self].name
           ys == Yields(name, ln.output)
       IN  IF inst[ln.self].regex = "str"
           THEN /\ Raise("AttributeError", ln.self, None)
                /\ UNCHANGED inst
           ELSE IF ln.k > Len(ys)
           THEN /\ ln' = [ln EXCEPT !.pc = "return"]
                /\ UNCHANGED <<inst, lv, pl, raised>>
           ELSE LET r == SplitMatch(name, ys[ln.k])
                IN  IF r.raise # ""
                    THEN /\ Raise(r.raise, ln.self, ys[ln.k])
                         /\ UNCHANGED inst
                    ELSE IF NeedsXrange(name, r)
                    THEN /\ Raise("NameError", ln.self, ys[ln.k])
                         /\ UNCHANGED inst
                    ELSE /\ inst' = [inst EXCEPT ![ln.self] = Placed(@, r, ln.code)]
                         /\ ln' = [ln EXCEPT !.k = @ + 1, !.results = Append(@, r)]
                         /\ UNCHANGED <<lv, pl, raised>>
    /\ UNCHANGED <<hostVars, defaults, delivered, log>>

\* lint returns to pre_lint (line 206) or to callback (line 200)
LintReturn ==
    /\ ln.pc = "return"
    /\ ln' = LnIdle
    /\ IF pl.pc = "lint_api"
       THEN /\ pl' = [pl EXCEPT !.pc = "task_done"]
            /\ UNCHANGED lv
       ELSE ReturnFromPreLint
    /\ UNCHANGED <<hostVars, inst, defaults, raised, delivered, log>>

-----------------------------------------------------------------------------
(* A view is assigned its linters, the plugin settings may change, and one *)
(* lint pass runs.                                                         *)

PassSyntaxSettings ==
    { <<"Packages", "/", "Python", "/", "Python", ".tmLanguage">>,
      <<"Packages", "/", "HTML", "/", "HTML", ".tmLanguage">>,
      <<"Packages", "/", "CSS", "/", "CSS", ".tmLanguage">> }

Attach ==
    /\ linters = EmptyMap
    /\ lv.pc = "idle"
    /\ \E syn \in PassSyntaxSettings : Assign(1, syn)

NextLintView ==
    \/ Attach
    \/ \E p \in PluginSettings : SettingsChanged(p)
    \/ \E view_id \in Views, code \in Codes, sections \in SectionChoices :
          LintViewStart(view_id, FileName(view_id), code, sections)
    \/ WholeNext
    \/ WholeDone
    \/ SelectorNext
    \/ SectionRun
    \/ SectionMerge
    \/ SectionsDone
    \/ Callback
    \/ PreLint
    \/ QueuePut
    \/ CallbackGet
    \/ TaskDone
    \/ Join
    \/ \E output \in Outputs : LintBegin(output)
    \/ LintNext
    \/ LintReturn

SpecLintView == Init /\ [][NextLintView]_vars

-----------------------------------------------------------------------------
(* The settings: the plugin settings change, the settings of a class are   *)
(* read, and reload caches every class's settings.                         *)

\* Linter.get_settings, lines 49-54, called on the class name (the settings
\* property of lines 56-58 calls it too)
GetSettings(name) ==
    /\ host.pc = "idle"
    /\ lv.pc = "idle"
    /\ defaults' = DefaultsAfterGet(defaults, plugins, name)
    /\ UNCHANGED <<hostVars, inst, passVars>>

NextSettings ==
    \/ Attach
    \/ \E p \in PluginSettings : SettingsChanged(p)
    \/ \E name \in Names : GetSettings(name)
    \/ \E mod \in {None} \cup {Some(m) : m \in Modules} : ReloadBegin(mod)
    \/ ReloadNextView
    \/ ReloadVisit
    \/ ReloadReplace
    \/ ReloadEndView
    \/ ReloadReturn
    \/ HostContinue

SpecSettings == Init /\ [][NextSettings]_vars

-----------------------------------------------------------------------------
(* One pass after another over the same view, the plugin settings changing *)
(* between passes.                                                         *)

\* lint_view has returned, or its exception has left it: the caller has the
\* callback's arguments or the exception, and the next pass may begin
LintViewReturn ==
    /\ lv.pc \in {"done", "raised"}
    /\ lv' = LvIdle
    /\ raised' = None
    /\ delivered' = <<>>
    /\ UNCHANGED <<hostVars, inst, defaults, pl, ln, log>>

\* the inputs of passes that run one after another, or beside reload: one
\* text, with or without the sections of source.php, and the checkers'
\* outputs
PassCode == <<"<", "?", "a", "?", ">", "<", "?", "b", "?", ">">>

PassSections ==
    { EmptyMap,
      [s \in {"source.php"} |-> << <<10, 0, 5>> >>] }

PassOutputs ==
    { <<NoMatchLine>>,
      << MatchLine(Some(<<3>>), None, None, Some("syntax error")) >> }

NextPasses ==
    \/ Attach
    \/ \E p \in PluginSettings : SettingsChanged(p)
    \/ \E sections \in PassSections :
          LintViewStart(1, FileName(1), PassCode, sections)
    \/ WholeNext
    \/ WholeDone
    \/ SelectorNext
    \/ SectionRun
    \/ SectionMerge
    \/ SectionsDone
    \/ Callback
    \/ PreLint
    \/ QueuePut
    \/ CallbackGet
    \/ TaskDone
    \/ Join
    \/ \E output \in PassOutputs : LintBegin(output)
    \/ LintNext
    \/ LintReturn
    \/ LintViewReturn

SpecPasses == Init /\ [][NextPasses]_vars

-----------------------------------------------------------------------------
(* lint_view in its worker thread while the host's thread is in reload.    *)
(* lint_view reads the view's set twice, at line 141 (get_selectors) and   *)
(* at line 143 (the tuple), and reload may act between the two.            *)

\* lines 140-141
LintViewSelectors(view_id, filename, code, sections) ==
    /\ lv.pc = "idle"
    /\ IF view_id \in DOMAIN linters
       THEN lv' = [LvIdle EXCEPT !.pc = "snapshot", !.view_id = view_id,
                                 !.filename = filename, !.code = code,
                                 !.sections = sections,
                                 !.selectors = {l \in linters[view_id] :
                                                  Selector(inst[l].name) # None}]
       ELSE lv' = [LvIdle EXCEPT !.pc = "done", !.view_id = view_id,
                                 !.filename = filename, !.code = code,
                                 !.sections = sections]
    /\ log' = <<>>
    /\ UNCHANGED <<hostVars, inst, defaults, pl, ln, raised, delivered>>

\* lines 143-145: the tuple of the set as it is now
LintViewSnapshot ==
    /\ lv.pc = "snapshot"
    /\ lv' = [lv EXCEPT !.pc = "whole", !.linters = linters[lv.view_id],
                        !.todo = linters[lv.view_id]]
    /\ UNCHANGED <<hostVars, inst, defaults, pl, ln, raised, delivered, log>>

NextConcurrent ==
    \/ Attach
    \/ ReloadBegin(None)
    \/ ReloadNextView
    \/ ReloadVisit
    \/ ReloadReplace
    \/ ReloadEndView
    \/ ReloadReturn
    \/ HostContinue
    \/ \E sections \in PassSections :
          LintViewSelectors(1, FileName(1), PassCode, sections)
    \/ LintViewSnapshot
    \/ WholeNext
    \/ WholeDone
    \/ SelectorNext
    \/ SectionRun
    \/ SectionMerge
    \/ SectionsDone
    \/ Callback
    \/ PreLint
    \/ QueuePut
    \/ CallbackGet
    \/ TaskDone
    \/ Join
    \/ \E output \in PassOutputs : LintBegin(output)
    \/ LintNext
    \/ LintReturn

SpecConcurrent == Init /\ [][NextConcurrent]_vars

-----------------------------------------------------------------------------
(* Properties of assign, remove and reload *)

\* a class handles a syntax when the lowercased syntax is its language string
\* or one of the strings of its language tuple
Handles(name, syntax) == Lower(syntax) \in Language(name).v

\* C1: a second assign of a view with the same syntax setting, with no remove
\* of the view in between, returns the set that the registry holds for the
\* view, constructs no instance and leaves the view's entry as it was
C1_AssignTwiceReturnsSameSet ==
    (last.op = "assign" /\ last.again) =>
        /\ last.vid \in DOMAIN linters
        /\ last.ret = Some(linters[last.vid])
        /\ last.made = {}
        /\ Entry(linters, last.vid) = last.pre

\* C7: after an assign that rebuilds, the view is in the registry iff some
\* registered class handles the syntax token; its set then holds exactly one
\* instance of every class that handles the token and of no other, each bound
\* to the view, the token and the view's file name; a view left out of the
\* registry got None from assign
C7_RebuiltSetIsTheMatchingClasses ==
    (last.op = "assign" /\ last.path # "same") =>
        LET vid == last.vid
            token == SyntaxToken(last.syn)
            handling == {name \in Names : Handles(name, token)}
        IN  /\ vid \in DOMAIN linters <=> handling # {}
            /\ vid \in DOMAIN linters =>
                  /\ \A name \in handling :
                        Cardinality({i \in linters[vid] : inst[i].name = name}) = 1
                  /\ \A i \in linters[vid] :
                        /\ inst[i].name \in handling
                        /\ inst[i].view = vid
                        /\ inst[i].syntax = token
                        /\ inst[i].filename = FileName(vid)
            /\ vid \notin DOMAIN linters => last.ret = None

\* C7's case: an assign has built a set of two instances for a view whose
\* earlier set was bound to another syntax
C7_Witness ==
    /\ last.op = "assign"
    /\ last.path = "built"
    /\ last.pre # None
    /\ Cardinality(linters[last.vid]) = 2

\* C8: when reload returns, the registry holds the same views as before and
\* every view as many instances as before; every instance that passed the
\* module filter has been cleared once, is out of its view's set, and the set
\* holds in its place one instance constructed by this reload, of the same
\* class, view, syntax and file name; every other instance is still in its set
C8_ReloadReplacesOneForOne ==
    host.pc = "returned" =>
        /\ DOMAIN linters = DOMAIN host.pre
        /\ \A id \in DOMAIN host.pre :
              /\ Cardinality(linters[id]) = Cardinality(host.pre[id])
              /\ \A i \in host.pre[id] :
                    IF host.mod = None \/ ModuleOf(host.preInst[i].name) = Val(host.mod)
                    THEN /\ i \notin linters[id]
                         /\ inst[i].cleared = host.preInst[i].cleared + 1
                         /\ Cardinality({j \in linters[id] \ DOMAIN host.preInst :
                                           /\ inst[j].name = host.preInst[i].name
                                           /\ inst[j].view = host.preInst[i].view
                                           /\ inst[j].syntax = host.preInst[i].syntax
                                           /\ inst[j].filename = host.preInst[i].filename}) = 1
                    ELSE /\ i \in linters[id]
                         /\ inst[i] = host.preInst[i]

\* C9: remove(vid) clears every instance of the view's set, leaves the view
\* out of the registry and every other view's entry and instances as they
\* were; for a view that is not in the registry it changes nothing
C9_RemoveClearsAndForgets ==
    [][ \A vid \in Views :
          (last'.op = "remove" /\ last'.vid = vid) =>
              /\ DOMAIN linters' = DOMAIN linters \ {vid}
              /\ vid \in DOMAIN linters =>
                    \A i \in linters[vid] :
                        /\ i \in DOMAIN inst'
                        /\ inst'[i].cleared = inst[i].cleared + 1
              /\ \A w \in DOMAIN linters \ {vid} :
                    /\ linters'[w] = linters[w]
                    /\ fill'[w] = fill[w]
                    /\ \A i \in linters[w] : inst'[i] = inst[i]
              /\ vid \notin DOMAIN linters => (linters' = linters /\ nextId' = nextId)
      ]_vars

\* C9's case: a view that had two instances has been removed while the other
\* view stays in the registry
C9_Witness ==
    /\ last.op = "remove"
    /\ last.path = "present"
    /\ last.pre # None
    /\ Cardinality(Val(last.pre)) = 2
    /\ \A i \in Val(last.pre) : inst[i].cleared = 1
    /\ DOMAIN linters # {}

-----------------------------------------------------------------------------
(* Properties of a lint pass *)

\* the elements of a sequence
Range(s) == {s[i] : i \in 1..Len(s)}

\* the events of the log that satisfy Keep(event), in order
Events(Keep(_)) == SelectSeq(log, Keep)

\* C2: when lint has gone through a non-empty output that the regex of a
\* multiline class matches nowhere, find_errors has yielded exactly one
\* result, that result has no match and no row, and the instance has recorded
\* no error
C2_MultilineNoMatchYieldsOnePlaceholder ==
    (/\ ln.pc = "return"
     /\ Multiline(inst[ln.self].name)
     /\ ln.output # <<>>
     /\ Finditer(ln.output) = <<>>) =>
        /\ Len(ln.results) = 1
        /\ ~ ln.results[1].match
        /\ ln.results[1].row = None
        /\ inst[ln.self].errors = Some(EmptyMap)

\* a match m of the regex of class name captures no line number
NoLine(name, m) == "line" \notin Groups(name) \/ m.line = None

\* C3: a match that captures no line number does not make the pass raise: it
\* is a result whose row is None, and the errors of the instance hold only
\* rows of results that have a row
C3_MatchWithoutRowIsDropped ==
    /\ raised # None =>
          LET x == Val(raised)
          IN  ~ (/\ x.exc \in {"KeyError", "TypeError"}
                 /\ x.arg # None
                 /\ NoLine(inst[x.self].name, Val(x.arg)))
    /\ ln.pc \in {"iter", "return"} =>
          LET name == inst[ln.self].name
              ys == Yields(name, ln.output)
          IN  /\ \A i \in 1..Len(ln.results) :
                    (ys[i] # None /\ NoLine(name, Val(ys[i]))) => ln.results[i].row = None
              /\ DOMAIN Val(inst[ln.self].errors) \subseteq
                    {Val(ln.results[i].row) :
                        i \in {j \in 1..Len(ln.results) : ln.results[j].row # None}}

\* C4: a class whose regex does not compile still gets its instance in the
\* set assign builds for a syntax it handles; a pass that runs such an
\* instance on non-empty code does not raise, and once the pass is done the
\* instance has no errors and is among the linters handed to the callback
C4_BrokenRegexIsSilent ==
    /\ (last.op = "assign" /\ last.path = "built") =>
          \A name \in Names :
              (Handles(name, SyntaxToken(last.syn)) /\ ~ RegexCompiles(name)) =>
                  \E i \in linters[last.vid] : inst[i].name = name /\ inst[i].regex = "str"
    /\ \A k \in 1..Len(log) :
          (/\ log[k].e = "run"
           /\ inst[log[k].self].regex = "str"
           /\ log[k].code # <<>>) =>
              /\ lv.pc # "raised"
              /\ lv.pc = "done" =>
                    /\ inst[log[k].self].errors = Some(EmptyMap)
                    /\ Len(delivered) = 1
                    /\ log[k].self \in delivered[1].linters

\* the steps of the rendezvous, in the order pre_lint's comment gives them
RendezvousOrder == <<"put", "get", "lint", "task_done", "join">>

\* C5: the events of a pre_lint call on an instance that needs the api are a
\* prefix of put, get, lint, task_done, join; the worker does put and join,
\* the host's thread does get, lint and task_done; the queue never holds more
\* than one token and is empty once pre_lint has returned; the worker reaches
\* join only with every task done
C5_RendezvousOrder ==
    LET OfApi(ev) == ev.e \in Range(RendezvousOrder) /\ NeedsApi(inst[ev.self].name)
        R == Events(OfApi)
    IN  /\ Len(R) <= Len(RendezvousOrder)
        /\ \A k \in 1..Len(R) :
              /\ R[k].e = RendezvousOrder[k]
              /\ R[k].e \in {"put", "join"} => R[k].by = "worker"
              /\ R[k].e \in {"get", "lint", "task_done"} => R[k].by = "host"
        /\ Len(pl.q) <= 1
        /\ pl.unfinished <= 1
        /\ (Len(R) = Len(RendezvousOrder) /\ pl.pc = "idle") => pl.q = <<>>
        /\ pl.pc = "join" => pl.unfinished = 0

\* C6: when the pass is done, every line L an instance with a selector found
\* in a section of line offset o is a line L + o of the instance's errors,
\* with the messages found there, and the instance's errors have no other
\* line; an instance without a selector that its settings do not disable has
\* been run once, on the whole text, and an instance without a selector is
\* never run on a section
C6_SectionMergeAddsLineOffset ==
    lv.pc = "done" =>
        /\ \A k \in 1..Len(log) :
              log[k].e = "section" =>
                  LET final == Val(inst[log[k].self].errors)
                  IN  \A L \in DOMAIN log[k].found :
                          /\ L + log[k].off \in DOMAIN final
                          /\ Range(log[k].found[L]) \subseteq Range(final[L + log[k].off])
        /\ \A l \in lv.linters :
              LET OfL(ev) == ev.e = "run" /\ ev.self = l
                  OnSection(ev) == ev.e = "section" /\ ev.self = l
                  runs == Events(OfL)
              IN  IF Selector(inst[l].name) = None
                  THEN /\ Len(runs) <= 1
                       /\ \A k \in 1..Len(runs) :
                             runs[k].kind = "whole" /\ runs[k].code = lv.code
                       /\ ~ Disabled(SettingsOf(defaults, plugins, inst[l].name)) =>
                             Len(runs) = 1
                  ELSE /\ \A k \in 1..Len(runs) : runs[k].kind = "section"
                       /\ inst[l].errors # None =>
                             DOMAIN Val(inst[l].errors) =
                                UNION {{L + ev.off : L \in DOMAIN ev.found} :
                                         ev \in Range(Events(OnSection))}

\* the column the claim gives for a reported column col on the text line: the
\* first index i with col - diff <= i, diff being tab_size - 1 times the
\* number of tabs at the indexes up to i; col when there is no such index
FirstIndex(line, col, tab_size) ==
    LET Diff(i) == (tab_size - 1) * Cardinality({j \in 0..i : line[j + 1] = "\t"})
        found == {i \in 0..(Len(line) - 1) : col - Diff(i) <= i}
    IN  IF found = {} THEN col ELSE CHOOSE i \in found : \A j \in found : i <= j

\* C10: a match with a column never makes lint raise NameError; its range
\* mark is at the reported column when tab_size is 1, and otherwise at the
\* first index i of the row's text with col - diff <= i, which is 1 for
\* column 5 of a tab followed by `foo = 1` with tab_size 4
C10_ColumnCorrected ==
    /\ raised # None => Val(raised).exc # "NameError"
    /\ ln.pc \in {"iter", "return"} =>
          LET x == inst[ln.self]
              tab_size == TabSize(x.name)
          IN  \A k \in 1..Len(ln.results) :
                  LET r == ln.results[k]
                      bounds == FullLine(ln.code, Val(r.row))
                      line == Slice(ln.code, bounds[1], bounds[2])
                  IN  (r.match /\ r.col # None) =>
                          \E m \in x.marks :
                              /\ m.kind = "range"
                              /\ m.row = Val(r.row)
                              /\ m.col = Some(IF tab_size = 1 THEN Val(r.col)
                                              ELSE FirstIndex(line, Val(r.col), tab_size))
                              /\ (/\ tab_size = 4
                                  /\ Val(r.col) = 5
                                  /\ line = <<"\t", "f", "o", "o", " ", "=", " ", "1">>) =>
                                     m.col = Some(1)

-----------------------------------------------------------------------------
(* Properties of the parser and of the errors it records *)

\* the errors a run has to record for the output lines given: for every line
\* the regex matches with a line number n, its message at row n - 1, the
\* messages of one row in the order of their lines
RECURSIVE RecordedIn(_)
RecordedIn(lines) ==
    IF lines = <<>> THEN EmptyMap
    ELSE LET l == lines[Len(lines)]
             rest == RecordedIn(SubSeq(lines, 1, Len(lines) - 1))
             row == ToInt(Val(l.line)) - 1
         IN  IF l.matches /\ l.line # None
             THEN [r \in DOMAIN rest \cup {row} |->
                     IF r = row
                     THEN (IF row \in DOMAIN rest THEN rest[row] ELSE <<>>) \o <<Str(l.error)>>
                     ELSE rest[r]]
             ELSE rest

\* C11: a class that is not multiline, with a compiled regex, gets one result
\* for every output line, in order: a line the regex does not match gives a
\* result without match, row or message and the run goes on; a line that
\* matches with line number n never makes the run raise and gives a result
\* with row n - 1 and its message; the errors recorded are the messages of the
\* matching lines at their rows and nothing else
C11_PerLineOneResultPerLine ==
    /\ raised # None =>
          LET x == Val(raised)
          IN  ~ (/\ ~ Multiline(inst[x.self].name)
                 /\ inst[x.self].regex = "compiled"
                 /\ x.arg # None
                 /\ Val(x.arg).line # None)
    /\ (/\ ln.pc \in {"iter", "return"}
        /\ ~ Multiline(inst[ln.self].name)
        /\ inst[ln.self].regex = "compiled") =>
          LET n == Len(ln.results)
          IN  /\ n = ln.k - 1
              /\ ln.pc = "return" => n = Len(ln.output)
              /\ \A i \in 1..n :
                    LET l == ln.output[i]
                        r == ln.results[i]
                    IN  /\ r.match = l.matches
                        /\ ~ l.matches => (r.row = None /\ r.col = None /\ r.error = Some(""))
                        /\ (l.matches /\ l.line # None) =>
                              /\ r.row = Some(ToInt(Val(l.line)) - 1)
                              /\ r.error = l.error
              /\ inst[ln.self].errors = Some(RecordedIn(SubSeq(ln.output, 1, n)))

\* the names of the classes that have an instance among ids
ClassesOf(ids) == {inst[i].name : i \in ids}

\* C12: an assign that gets as far as asking the classes constructs an
\* instance of a class iff the lowercased syntax token is the class's
\* language string or in its language tuple, and of no class that declares
\* no language; two views whose syntax tokens differ only in letter case
\* hold instances of the same classes
C12_CanLintIgnoresCase ==
    /\ (last.op = "assign" /\ last.path \in {"built", "nomatch"}
                           /\ SyntaxToken(last.syn) # <<>>) =>
          \A name \in Names :
              /\ name \in ClassesOf(last.made) <=> Handles(name, SyntaxToken(last.syn))
              /\ Language(name).kind = "empty" => name \notin ClassesOf(last.made)
    /\ host.pc = "idle" =>
          \A v, w \in DOMAIN linters :
              (\A i \in linters[v], j \in linters[w] :
                  Lower(inst[i].syntax) = Lower(inst[j].syntax)) =>
                      ClassesOf(linters[v]) = ClassesOf(linters[w])

\* C12's case: a view has just got its instances for the token Python while
\* the other view holds instances for the token python
C12_Witness ==
    /\ last.op = "assign"
    /\ last.path = "built"
    /\ SyntaxToken(last.syn) = <<"Python">>
    /\ \E w \in DOMAIN linters \ {last.vid} :
          /\ \A j \in linters[w] : inst[j].syntax = <<"python">>
          /\ ClassesOf(linters[w]) = ClassesOf(linters[last.vid])
          /\ Cardinality(linters[w]) = 2

-----------------------------------------------------------------------------
(* Properties of the instances' life in the registry *)

\* C13: an assign that comes right after a remove that found the view
\* registered, with the syntax the removed instances had, builds a set:
\* it returns the set now registered for the view, every instance of the set
\* was constructed by this call, none of them is one of the removed
\* instances, and every removed instance has been cleared
C13_DetachThenAttachIsFresh ==
    [][ ( /\ last.op = "remove"
          /\ last.path = "present"
          /\ last'.op = "assign"
          /\ last'.vid = last.vid
          /\ \A i \in Val(last.pre) : inst[i].syntax = SyntaxToken(last'.syn) ) =>
            /\ last'.path = "built"
            /\ last.vid \in DOMAIN linters'
            /\ last'.ret = Some(linters'[last.vid])
            /\ linters'[last.vid] = last'.made
            /\ linters'[last.vid] \cap DOMAIN inst = {}
            /\ linters'[last.vid] \cap Val(last.pre) = {}
            /\ \A i \in Val(last.pre) : inst[i].cleared = 1
      ]_vars

\* C13's case: a view whose two instances were removed by the call before
\* has been assigned again and holds two instances
C13_Witness ==
    /\ last.op = "assign"
    /\ last.detached
    /\ last.path = "built"
    /\ Cardinality(linters[last.vid]) = 2
    /\ last.made = linters[last.vid]

-----------------------------------------------------------------------------
(* Properties of the settings *)

\* C14: when reload returns, the lint_settings of every class are the
\* defaults the class declares, overridden by what the plugin settings hold
\* for the class at that time, whatever was read, changed and reloaded before
C14_ReloadCachesDeclaredDefaults ==
    host.pc = "returned" =>
        \A name \in Names :
            lint_settings[name] =
                Update(DefaultsOrEmpty(DeclaredDefaults(name)), PluginsGet(plugins, name))

-----------------------------------------------------------------------------
(* Properties of lint_view as a whole *)

\* the runs of the instance l that the log of the pass holds
RunsOf(l) ==
    LET OfL(ev) == ev.e = "run" /\ ev.self = l
    IN  Events(OfL)

\* C15: the callback is called at most once in a pass.  Once it has been
\* called the pass is done and nothing of it is running: the view is
\* registered, no instance has raised, every instance without a selector that
\* its settings do not disable has had its run on the whole text, every
\* instance with a selector has had one run for each of its sections, the
\* runs on the whole text all came before the runs on sections, and the
\* callback got the view and all the instances of the view.  A pass that is
\* done for a registered view has called the callback; a pass for a view
\* that is not registered runs no instance and never calls it.
C15_CallbackOnceAfterAllRuns ==
    /\ Len(delivered) <= 1
    /\ delivered # <<>> =>
          /\ lv.pc = "done"
          /\ pl.pc = "idle"
          /\ ln.pc = "idle"
          /\ raised = None
          /\ lv.view_id \in DOMAIN linters
          /\ delivered[1].view = lv.view_id
          /\ delivered[1].linters = linters[lv.view_id]
          /\ \A l \in linters[lv.view_id] :
                LET name == inst[l].name
                IN  IF Selector(name) = None
                    THEN ~ Disabled(SettingsOf(defaults, plugins, name)) =>
                            Len(RunsOf(l)) = 1
                    ELSE Len(RunsOf(l)) =
                            (IF Val(Selector(name)) \in DOMAIN lv.sections
                             THEN Len(lv.sections[Val(Selector(name))]) ELSE 0)
          /\ \A i, j \in 1..Len(log) :
                (log[i].e = "run" /\ log[j].e = "run" /\ log[i].kind = "section"
                                  /\ log[j].kind = "whole") => j < i
    /\ (lv.pc = "done" /\ lv.view_id \in DOMAIN linters) => Len(delivered) = 1
    /\ (lv.pc # "idle" /\ lv.view_id \notin DOMAIN linters) =>
          /\ lv.pc = "done"
          /\ log = <<>>
          /\ delivered = <<>>

\* C15's case: a pass over a view with an instance that ran on the whole text
\* and an instance that ran on two sections has called the callback
C15_Witness ==
    /\ lv.pc = "done"
    /\ Len(delivered) = 1
    /\ Cardinality(delivered[1].linters) = 2
    /\ \E l, m \in lv.linters :
          /\ Len(RunsOf(l)) = 1 /\ RunsOf(l)[1].kind = "whole"
          /\ Len(RunsOf(m)) = 2 /\ RunsOf(m)[2].kind = "section"

\* C16: a pass that has taken its tuple of a view's instances while reload
\* is under way, or before it, holds as many instances as the view had when
\* reload began, at least one, and the callback's linters[0] never raises
\* IndexError
C16_SnapshotSeesEveryInstance ==
    /\ ( /\ host.pc \in {"reload", "returned"}
         /\ lv.pc \notin {"idle", "snapshot"}
         /\ lv.view_id \in DOMAIN host.pre ) =>
            /\ lv.linters # {}
            /\ Cardinality(lv.linters) = Cardinality(host.pre[lv.view_id])
    /\ raised # None => Val(raised).exc # "IndexError"

\* the errors a run has recorded once it has placed the results given: the
\* message of every result that has a match and a row, at its row, the
\* messages of one row in the order of their results
RECURSIVE Appended(_)
Appended(results) ==
    IF results = <<>> THEN EmptyMap
    ELSE LET r == results[Len(results)]
             before == Appended(SubSeq(results, 1, Len(results) - 1))
             row == Val(r.row)
         IN  IF r.match /\ r.row # None
             THEN IF row \in DOMAIN before
                  THEN [before EXCEPT ![row] = Append(@, Str(r.error))]
                  ELSE [l \in DOMAIN before \cup {row} |->
                          IF l = row THEN <<Str(r.error)>> ELSE before[l]]
             ELSE before

\* C17: in a run of any instance, a match that has a line number never makes
\* the run raise in place of recording its message, and after every result
\* the errors of the instance are the messages of the results that have a row,
\* each at its row, in the order the parser gave them: each new message is
\* appended and the earlier ones stay where they were
C17_MessagesAppendedInOrder ==
    /\ raised # None =>
          LET x == Val(raised)
          IN  ~ (/\ x.arg # None
                 /\ "line" \in Groups(inst[x.self].name)
                 /\ Val(x.arg).line # None)
    /\ ln.pc \in {"iter", "return"} =>
          inst[ln.self].errors = Some(Appended(ln.results))

\* C18: when a pass has called the callback, an instance handed to it that
\* had no run in the pass (its settings disable it, or the sections of the
\* pass have no entry for its selector) holds no errors, and the errors of an
\* instance that ran on sections are lines found in this pass's sections
C18_NoErrorsFromEarlierPass ==
    (lv.pc = "done" /\ delivered # <<>>) =>
        \A l \in delivered[1].linters :
            LET OnSection(ev) == ev.e = "section" /\ ev.self = l
            IN  /\ RunsOf(l) = <<>> =>
                      (inst[l].errors = None \/ inst[l].errors = Some(EmptyMap))
                /\ (RunsOf(l) # <<>> /\ Selector(inst[l].name) # None) =>
                      DOMAIN Val(inst[l].errors) \subseteq
                          UNION {{L + ev.off : L \in DOMAIN ev.found} :
                                   ev \in Range(Events(OnSection))}

\* C19: in every step, an instance that is in the registry before the step
\* and in no set of the registry after it has been cleared at least once when
\* the step ends; so the instances of the set that assign replaces for a view
\* whose syntax changed are cleared
C19_LeavingInstancesAreCleared ==
    [][\A i \in UNION {linters[v] : v \in DOMAIN linters} :
          i \notin UNION {linters'[v] : v \in DOMAIN linters'} =>
              /\ i \in DOMAIN inst'
              /\ inst'[i].cleared >= 1]_vars

\* C20: whenever no call of assign, remove or reload is under way, every view
\* id of the registry has a set of at least one instance, so that
\* tuple(persist.linters[view_id])[0] exists
C20_RegisteredSetsAreNotEmpty ==
    host.pc \in {"idle", "returned"} =>
        \A v \in DOMAIN linters : linters[v] # {}

\* reload has returned after it removed and replaced every instance of a
\* registered view that has two of them
C20_Witness ==
    /\ host.pc = "returned"
    /\ \E v \in DOMAIN linters :
          /\ Cardinality(linters[v]) = 2
          /\ \A i \in linters[v] : inst[i].drawn = 1

====
